---- MODULE Spec2Model ----
(***************************************************************************)
(* Model of the docling chat bot indexing service (UWFms/word):            *)
(*   - routes.py       index_document, chunks_by_heading and the metadata  *)
(*                     helpers they use                                    *)
(*   - milvus.py       recreate_collection and the store's query contract  *)
(*   - tokenization.py YandexTokenizer (probe, count_tokens, fallback)     *)
(*                                                                         *)
(* A Python str is a sequence of symbols.  A symbol is one character,      *)
(* except that a literal the code only ever matches as a whole (the regex  *)
(* literal "headings=[", a file extension, a word of a text) is kept as    *)
(* one symbol.                                                             *)
(***************************************************************************)
EXTENDS Integers, Sequences, FiniteSets, TLC

\* ---------------------------------------------------------------- bounds
\* index operations in one behaviour
MaxGen == 2
\* largest depth a chunks_by_heading request asks for (the smallest is -1)
MaxDepth == 3
\* largest chunk_index a chunks_by_heading request asks for
MaxChunkIndex == 2
\* tokenize POSTs and tokenizer instances in one behaviour
MaxPosts == 2
MaxInstances == 2
\* longest token list the tokenize API answers with
MaxTokens == 2

\* ------------------------------------------------------- program constants
\* limit=10000 of the store query in chunks_by_heading
QueryLimit == 10000

\* ------------------------------------------------------------ Python values
Min(a, b) == IF a < b THEN a ELSE b

\* Optional[list[str]]: None, or a list
NoneV == [some |-> FALSE, v |-> <<>>]
Some(x) == [some |-> TRUE, v |-> x]

\* A value of a metadata dict.  t is its Python type: "str", "list" (a list
\* of str), "int", or "obj" (an object json.dumps rejects, s being its str()).
StrV(s) == [t |-> "str", s |-> s, l |-> <<>>, n |-> 0]
ListV(l) == [t |-> "list", s |-> <<>>, l |-> l, n |-> 0]
IntV(n) == [t |-> "int", s |-> <<>>, l |-> <<>>, n |-> n]
ObjV(s) == [t |-> "obj", s |-> s, l |-> <<>>, n |-> 0]

\* dict[key] = value, adding the key when it is new
DictSet(d, k, val) == [x \in DOMAIN d \cup {k} |-> IF x = k THEN val ELSE d[x]]

IsSpace(c) == c \in {" ", "\t", "\n"}

RECURSIVE lstrip(_)
lstrip(s) == IF s = <<>> THEN s
             ELSE IF IsSpace(Head(s)) THEN lstrip(Tail(s)) ELSE s

RECURSIVE rstrip(_)
rstrip(s) == IF s = <<>> THEN s
             ELSE IF IsSpace(s[Len(s)]) THEN rstrip(SubSeq(s, 1, Len(s) - 1)) ELSE s

\* str.strip()
strip(s) == rstrip(lstrip(s))

\* [strip(v) for v in values if strip(v)]
RECURSIVE StripNonEmpty(_)
StripNonEmpty(values) ==
    IF values = <<>> THEN <<>>
    ELSE IF strip(Head(values)) # <<>>
         THEN <<strip(Head(values))>> \o StripNonEmpty(Tail(values))
         ELSE StripNonEmpty(Tail(values))

\* ------------------------------------------------- heading-path extraction
\* Positions p of s with s[p] = c, from position `from` on; 0 when there is none.
RECURSIVE IndexFrom(_, _, _)
IndexFrom(s, c, from) ==
    IF from > Len(s) THEN 0
    ELSE IF s[from] = c THEN from ELSE IndexFrom(s, c, from + 1)

\* re.search(r"headings=\[(.*?)]", meta_str).group(1): the text between the
\* first "headings=[" that has a "]" later on the same line and that "]"
\* ("." does not match a newline).  None when nothing matches.
RECURSIVE SearchHeadingsFragment(_, _)
SearchHeadingsFragment(s, from) ==
    LET p == IndexFrom(s, "headings=[", from)
        q == IndexFrom(s, "]", p + 1)
        nl == IndexFrom(s, "\n", p + 1)
    IN  IF p = 0 THEN NoneV
        ELSE IF q # 0 /\ (nl = 0 \/ nl > q) THEN Some(SubSeq(s, p + 1, q - 1))
        ELSE SearchHeadingsFragment(s, p + 1)

\* re.findall(r"'(.*?)'", inside): the texts between successive pairs of quotes
RECURSIVE FindAllQuoted(_, _)
FindAllQuoted(s, from) ==
    LET i == IndexFrom(s, "'", from)
        j == IndexFrom(s, "'", i + 1)
    IN  IF i = 0 \/ j = 0 THEN <<>>
        ELSE <<SubSeq(s, i + 1, j - 1)>> \o FindAllQuoted(s, j + 1)

_extract_headings_from_meta(meta_str) ==
    IF meta_str = <<>> THEN NoneV
    ELSE LET m == SearchHeadingsFragment(meta_str, 1)
         IN  IF ~m.some THEN NoneV
             ELSE LET headings == StripNonEmpty(FindAllQuoted(m.v, 1))
                  IN  IF headings = <<>> THEN NoneV ELSE Some(headings)

_headings_from_metadata(meta_full) ==
    IF DOMAIN meta_full = {} THEN NoneV
    ELSE LET normalized ==
                 IF "headings" \in DOMAIN meta_full /\ meta_full["headings"].t = "list"
                 THEN StripNonEmpty(meta_full["headings"].l)
                 ELSE <<>>
         IN  IF normalized # <<>> THEN Some(normalized)
             ELSE IF "meta" \in DOMAIN meta_full /\ meta_full["meta"].t = "str"
                  THEN _extract_headings_from_meta(meta_full["meta"].s)
                  ELSE NoneV


\* ------------------------------------------------------ metadata normalizer
\* repr() of a str: single quotes, or double quotes when the text holds a
\* single quote and no double quote (the inputs never hold both).
ReprStr(s) ==
    IF IndexFrom(s, "'", 1) # 0 /\ IndexFrom(s, "\"", 1) = 0
    THEN <<"\"">> \o s \o <<"\"">>
    ELSE <<"'">> \o s \o <<"'">>

\* ", ".join(repr(h) for h in l)
RECURSIVE JoinRepr(_)
JoinRepr(l) ==
    IF l = <<>> THEN <<>>
    ELSE IF Len(l) = 1 THEN ReprStr(l[1])
    ELSE ReprStr(l[1]) \o <<",", " ">> \o JoinRepr(Tail(l))

\* str() of a list of str
ListStr(l) == <<"[">> \o JoinRepr(l) \o <<"]">>

\* str() of a chunk's DocMeta, as the docstring of _extract_headings_from_meta
\* gives it: "schema_name='...DocMeta' ... headings=['2 ', '2.4 '] captions=None";
\* headings=None when the chunk stands under no heading.
DocMetaStr(headings) ==
    <<"s", "=", "'", "D", "'", " ">>
    \o (IF headings.some
        THEN <<"headings=[">> \o JoinRepr(headings.v) \o <<"]">>
        ELSE <<"headings=", "None">>)
    \o <<" ", "c", "=", "None">>

\* str(value) and bool(value) of a dict value
PyStr(val) == IF val.t = "list" THEN ListStr(val.l)
              ELSE IF val.t = "int" THEN <<ToString(val.n)>>
              ELSE val.s
Truthy(val) == IF val.t = "str" THEN val.s # <<>>
               ELSE IF val.t = "list" THEN val.l # <<>>
               ELSE IF val.t = "int" THEN val.n # 0
               ELSE TRUE

\* json.dumps(value) succeeds
JsonSerializable(val) == val.t # "obj"

\* the attributes _extract_text_and_metadata does not copy
DenyList == {"doc_items", "origin", "model_fields", "model_config",
             "model_extra", "model_computed_fields"}

\* for attr in ("text", "content", "page_content"): the first that is set and truthy
RECURSIVE FirstText(_, _)
FirstText(attrs, names) ==
    IF names = <<>> THEN <<>>
    ELSE IF Head(names) \in DOMAIN attrs /\ Truthy(attrs[Head(names)])
         THEN PyStr(attrs[Head(names)])
         ELSE FirstText(attrs, Tail(names))

\* Faulty variant of _extract_text_and_metadata: chunk_index is only a default
\* (setdefault), as source is.
_extract_text_and_metadata_IndexDefault(chunk, idx, document_name) ==
    LET first == FirstText(chunk.attrs, <<"text", "content", "page_content">>)
        text == strip(IF first = <<>> THEN chunk.repr ELSE first)
        copied == [k \in DOMAIN chunk.attrs \ DenyList |->
                      IF JsonSerializable(chunk.attrs[k]) THEN chunk.attrs[k]
                      ELSE StrV(PyStr(chunk.attrs[k]))]
        normalized == [k \in DOMAIN copied |->
                          IF k = "headings"
                          THEN (IF copied[k].t = "list" THEN copied[k] ELSE ListV(<<>>))
                          ELSE copied[k]]
        withIndex == IF "chunk_index" \in DOMAIN normalized THEN normalized
                     ELSE DictSet(normalized, "chunk_index", IntV(idx))
        withName == DictSet(withIndex, "document_name", StrV(document_name))
        withSource == IF "source" \in DOMAIN withName THEN withName
                      ELSE DictSet(withName, "source", StrV(<<"docling_upload">>))
    IN  [text |-> text, metadata |-> withSource]

\* Faulty variant of _extract_text_and_metadata: a field json.dumps rejects is
\* left out.
_extract_text_and_metadata_DropRejected(chunk, idx, document_name) ==
    LET first == FirstText(chunk.attrs, <<"text", "content", "page_content">>)
        text == strip(IF first = <<>> THEN chunk.repr ELSE first)
        copied == [k \in {x \in DOMAIN chunk.attrs \ DenyList :
                             JsonSerializable(chunk.attrs[x])} |-> chunk.attrs[k]]
        normalized == [k \in DOMAIN copied |->
                          IF k = "headings"
                          THEN (IF copied[k].t = "list" THEN copied[k] ELSE ListV(<<>>))
                          ELSE copied[k]]
        withIndex == DictSet(normalized, "chunk_index", IntV(idx))
        withName == DictSet(withIndex, "document_name", StrV(document_name))
        withSource == IF "source" \in DOMAIN withName THEN withName
                      ELSE DictSet(withName, "source", StrV(<<"docling_upload">>))
    IN  [text |-> text, metadata |-> withSource]

\* A chunk is [attrs |-> its __dict__, repr |-> str(chunk)].
\* Returns [text |-> ..., metadata |-> ...].
_extract_text_and_metadata(chunk, idx, document_name) ==
    LET first == FirstText(chunk.attrs, <<"text", "content", "page_content">>)
        text == strip(IF first = <<>> THEN chunk.repr ELSE first)
        copied == [k \in DOMAIN chunk.attrs \ DenyList |->
                      IF JsonSerializable(chunk.attrs[k]) THEN chunk.attrs[k]
                      ELSE StrV(PyStr(chunk.attrs[k]))]
        normalized == [k \in DOMAIN copied |->
                          IF k = "headings"
                          THEN (IF copied[k].t = "list" THEN copied[k] ELSE ListV(<<>>))
                          ELSE copied[k]]
        withIndex == DictSet(normalized, "chunk_index", IntV(idx))
        withName == DictSet(withIndex, "document_name", StrV(document_name))
        withSource == IF "source" \in DOMAIN withName THEN withName
                      ELSE DictSet(withName, "source", StrV(<<"docling_upload">>))
    IN  [text |-> text, metadata |-> withSource]

\* ------------------------------------------------------------ the inputs
\* Heading titles as the converter gives them (with their trailing blank).
H1 == <<"1", " ">>
H12 == <<"1", ".", "2", " ">>
H123 == <<"1", ".", "2", ".", "3", " ">>
H2 == <<"2", " ">>
\* a title without a number, which a document may use under several chapters
HIntro == <<"Intro", " ">>

\* A docling chunk: its text and its DocMeta (which json.dumps rejects).
DocChunk(text, headings) ==
    [attrs |-> [k \in {"text", "meta"} |->
                   IF k = "text" THEN StrV(text) ELSE ObjV(DocMetaStr(headings))],
     repr |-> <<"text=">> \o ReprStr(text)]

\* A chunk that carries its headings as a structured list, and no DocMeta.
ListChunk(text, headings) ==
    [attrs |-> [k \in {"text", "headings"} |->
                   IF k = "text" THEN StrV(text) ELSE ListV(headings)],
     repr |-> <<"text=">> \o ReprStr(text)]

\* A chunk with both: an empty structured list and a DocMeta.
BothChunk(text, headings) ==
    [attrs |-> [k \in {"text", "headings", "meta"} |->
                   IF k = "text" THEN StrV(text)
                   ELSE IF k = "headings" THEN ListV(<<>>)
                   ELSE ObjV(DocMetaStr(headings))],
     repr |-> <<"text=">> \o ReprStr(text)]

\* What DocProcessor.process_single_file makes of a file: it raises
\* (conversion or chunking failed), or returns the file's chunks.
Raises == [raises |-> TRUE, chunks |-> <<>>]
Chunks(cs) == [raises |-> FALSE, chunks |-> cs]

DocSection == Chunks(<<DocChunk(<<"x">>, Some(<<H1, H12>>)),
                       DocChunk(<<"y">>, Some(<<H1>>)),
                       BothChunk(<<"z">>, Some(<<H1, H12, H123>>))>>)
DocBlank == Chunks(<<DocChunk(<<"x">>, Some(<<H1, H12>>)),
                     DocChunk(<<" ", "\n">>, Some(<<H1>>)),
                     DocChunk(<<"y", " ">>, Some(<<H1>>))>>)
DocPlain == Chunks(<<DocChunk(<<"w">>, NoneV),
                     ListChunk(<<"v">>, <<H2, <<" ">>>>)>>)
\* a document whose chapters 1 and 2 each have a subsection "Intro"
DocRepeat == Chunks(<<DocChunk(<<"p">>, Some(<<H1, HIntro>>)),
                      DocChunk(<<"q">>, Some(<<H2, HIntro>>))>>)
DocAllBlank == Chunks(<<DocChunk(<<" ">>, Some(<<H2>>))>>)
DocNoChunks == Chunks(<<>>)

\* File names of the upload directory.
FileA == <<"a", ".docx">>
FileB == <<"b", ".DOCX">>
FileN == <<"n", ".txt">>

\* The upload directory: missing, or a mapping file name -> file.
NoDir == [exists |-> FALSE, files |-> [f \in {} |-> Raises]]
Dir(files) == [exists |-> TRUE, files |-> files]
OneFile(f, d) == [x \in {f} |-> d]
TwoFiles(f, d, g, e) == [x \in {f, g} |-> IF x = f THEN d ELSE e]

UploadDirs ==
    { NoDir,
      Dir(OneFile(FileN, DocSection)),
      Dir(OneFile(FileA, DocSection)),
      Dir(OneFile(FileA, DocRepeat)),
      Dir(TwoFiles(FileA, DocBlank, FileB, DocPlain)),
      Dir(TwoFiles(FileA, Raises, FileB, DocSection)),
      Dir(TwoFiles(FileA, DocAllBlank, FileB, DocNoChunks)),
      Dir(TwoFiles(FileA, DocPlain, FileN, DocBlank)) }

\* ------------------------------------------------------------- the state
VARIABLES
    upload_dir,          \* the upload directory (UPLOAD_DIR) as the last index
                         \* operation found it
    collection,          \* "absent" or "loaded": the Milvus collection
    store,               \* the collection's records, in insertion order; each is
                         \* [text, metadata, gen], gen naming the index operation
                         \* that inserted it (history, not stored by the program)
    gen,                 \* index operations started so far
    resp,                \* the response of the last request
    endpoint_reachable,  \* YandexTokenizer._endpoint_reachable: "None", "True", "False"
    probes,              \* GETs this tokenizer instance has sent
    posts,               \* tokenize POSTs this tokenizer instance has sent
    instances,           \* tokenizer instances constructed so far
    tk,                  \* the last tokenizer call and what it returned
    fn,                  \* the last application of a metadata helper: its
                         \* arguments and what it returned
    pc,                  \* where each of two overlapping index requests stands
    wresp,               \* the response of each of them
    had,                 \* the documents the store held when each of them began
                         \* (history, not stored by the program)
    at                   \* where the index requests stood when the last
                         \* chunks_by_heading request queried the store (history)

vars == <<upload_dir, collection, store, gen, resp,
          endpoint_reachable, probes, posts, instances, tk, fn,
          pc, wresp, had, at>>
svc_vars == <<upload_dir, collection, store, gen, resp>>
tok_vars == <<endpoint_reachable, probes, posts, instances, tk>>
norm_vars == <<fn>>
conc_vars == <<pc, wresp, had, at>>

\* ------------------------------------------------------------- responses
NoReq == [document_name |-> <<>>, chunk_index |-> 0, depth |-> 0]

\* status 0 is "no request yet"; results is the list of SectionChunkHit
Response(op, req, status, detail, inserted, depth_used, target_heading, results) ==
    [op |-> op, req |-> req, status |-> status, detail |-> detail,
     inserted |-> inserted, depth_used |-> depth_used,
     target_heading |-> target_heading, results |-> results]

NoResponse == Response("none", NoReq, 0, "", 0, 0, NoneV, <<>>)
IndexResponse(inserted) ==
    Response("index_document", NoReq, 200, "", inserted, 0, NoneV, <<>>)
IndexError(detail) ==
    Response("index_document", NoReq, 500, detail, 0, 0, NoneV, <<>>)
HTTPException(req, status, detail) ==
    Response("chunks_by_heading", req, status, detail, 0, 0, NoneV, <<>>)
SectionChunksResponse(req, depth_used, target_heading, results) ==
    Response("chunks_by_heading", req, 200, "", 0, depth_used, target_heading, results)

\* ------------------------------------------------------ recreate_collection
\* outcome: "ok"; "fail_before_drop" (has_collection or drop_collection
\* raises); "fail_after_drop" (embed_query, create_collection, create_index or
\* load_collection raises: the old collection is gone and no new one is loaded).
recreate_collection(coll, recs, outcome) ==
    IF outcome = "fail_before_drop"
    THEN [raised |-> TRUE, collection |-> coll, store |-> recs]
    ELSE IF outcome = "fail_after_drop"
    THEN [raised |-> TRUE, collection |-> "absent", store |-> <<>>]
    ELSE [raised |-> FALSE, collection |-> "loaded", store |-> <<>>]

RecreateOutcomes == {"ok", "fail_before_drop", "fail_after_drop"}

\* ----------------------------------------------------------- index_document
\* str.lower() and the code points sorted() compares, symbol by symbol
Lower(c) == IF c = ".DOCX" THEN ".docx" ELSE c
Ord(c) == IF c = "a" THEN 97 ELSE IF c = "b" THEN 98 ELSE IF c = "n" THEN 110 ELSE 0

\* [f for f in os.listdir(upload_dir_abs) if f.lower().endswith(".docx")]
doc_files(dir) == {f \in DOMAIN dir.files : Lower(f[Len(f)]) = ".docx"}

\* sorted(doc_files): the names differ in their first symbol
RECURSIVE sorted(_)
sorted(files) ==
    IF files = {} THEN <<>>
    ELSE LET first == CHOOSE f \in files : \A g \in files : Ord(f[1]) <= Ord(g[1])
         IN  <<first>> \o sorted(files \ {first})

\* Faulty variant of EnumerateChunks: a chunk with empty text is kept.
RECURSIVE EnumerateChunks_KeepEmpty(_, _, _)
EnumerateChunks_KeepEmpty(chunks, idx, filename) ==
    IF chunks = <<>> THEN <<>>
    ELSE <<_extract_text_and_metadata(Head(chunks), idx, filename)>>
         \o EnumerateChunks_KeepEmpty(Tail(chunks), idx + 1, filename)

\* Faulty variant of EnumerateChunks: idx advances only past a kept chunk.
RECURSIVE EnumerateChunks_CountKept(_, _, _)
EnumerateChunks_CountKept(chunks, idx, filename) ==
    IF chunks = <<>> THEN <<>>
    ELSE LET tm == _extract_text_and_metadata(Head(chunks), idx, filename)
         IN  IF tm.text = <<>>
             THEN EnumerateChunks_CountKept(Tail(chunks), idx, filename)
             ELSE <<tm>> \o EnumerateChunks_CountKept(Tail(chunks), idx + 1, filename)

\* for idx, chunk in enumerate(chunks): the (text, metadata) pairs kept,
\* a chunk whose text is empty being skipped; idx is 0-based and counts every chunk
RECURSIVE EnumerateChunks(_, _, _)
EnumerateChunks(chunks, idx, filename) ==
    IF chunks = <<>> THEN <<>>
    ELSE LET tm == _extract_text_and_metadata(Head(chunks), idx, filename)
             rest == EnumerateChunks(Tail(chunks), idx + 1, filename)
         IN  IF tm.text = <<>> THEN rest ELSE <<tm>> \o rest

\* Faulty variant of ProcessFiles: the loop ends at the first file whose
\* processing raises.
RECURSIVE ProcessFiles_StopAtFailure(_, _)
ProcessFiles_StopAtFailure(names, dir) ==
    IF names = <<>> THEN <<>>
    ELSE LET file == dir.files[Head(names)]
             rest == ProcessFiles_StopAtFailure(Tail(names), dir)
         IN  IF file.raises THEN <<>>
             ELSE IF file.chunks = <<>> THEN rest
             ELSE EnumerateChunks(file.chunks, 0, Head(names)) \o rest

\* the loop over sorted(doc_files): a file whose processing raises, or that
\* gives no chunks, is skipped
RECURSIVE ProcessFiles(_, _)
ProcessFiles(names, dir) ==
    IF names = <<>> THEN <<>>
    ELSE LET file == dir.files[Head(names)]
             rest == ProcessFiles(Tail(names), dir)
         IN  IF file.raises \/ file.chunks = <<>> THEN rest
             ELSE EnumerateChunks(file.chunks, 0, Head(names)) \o rest

\* The records milvus_store.add_texts(texts, metadatas) writes.
Tagged(pairs, g) ==
    [i \in 1..Len(pairs) |->
        [text |-> pairs[i].text, metadata |-> pairs[i].metadata, gen |-> g]]

\* The whole handler.  rc is the outcome of recreate_collection; add_ok tells
\* whether add_texts succeeds (it embeds every text and then writes the batch,
\* here below the 1000 rows of one insert call: all of it or, raising, none).
\* Returns the collection, the store and the response.
index_document(dir, coll, recs, g, rc, add_ok) ==
    LET unchanged(r) == [collection |-> coll, store |-> recs, resp |-> r]
        rec == recreate_collection(coll, recs, rc)
        pairs == ProcessFiles(sorted(doc_files(dir)), dir)
    IN  IF ~dir.exists THEN unchanged(IndexError("Upload dir does not exist"))
        ELSE IF doc_files(dir) = {} THEN unchanged(IndexResponse(0))
        ELSE IF rec.raised
        THEN [collection |-> rec.collection, store |-> rec.store,
              resp |-> IndexError("Internal Server Error")]
        ELSE IF pairs = <<>>
        THEN [collection |-> rec.collection, store |-> rec.store,
              resp |-> IndexResponse(0)]
        ELSE IF ~add_ok
        THEN [collection |-> rec.collection, store |-> rec.store,
              resp |-> IndexError("Failed to insert chunks into Milvus")]
        ELSE [collection |-> rec.collection,
              store |-> rec.store \o Tagged(pairs, g),
              resp |-> IndexResponse(Len(pairs))]

\* -------------------------------------------------------- chunks_by_heading
\* The orders a store may return n records in: the bijections on 1..n.
Orders(n) == {f \in [1..n -> 1..n] : \A i, j \in 1..n : f[i] = f[j] => i = j}

RECURSIVE Filter(_, _)
Filter(recs, document_name) ==
    IF recs = <<>> THEN <<>>
    ELSE IF "document_name" \in DOMAIN Head(recs).metadata
            /\ Head(recs).metadata["document_name"] = StrV(document_name)
         THEN <<Head(recs)>> \o Filter(Tail(recs), document_name)
         ELSE Filter(Tail(recs), document_name)

\* Faulty variant of query: a limit of 2 rows.
query_LimitTwo(coll, recs, document_name, order) ==
    IF coll = "absent" THEN [raised |-> TRUE, rows |-> <<>>]
    ELSE LET matching == Filter(recs, document_name)
             n == Len(matching)
             returned == [i \in 1..n |-> matching[order[i]]]
         IN  [raised |-> FALSE, rows |-> SubSeq(returned, 1, Min(n, 1 + 1))]

\* client.query(filter="metadata['document_name'] == ...", limit=10000): it
\* raises when the collection is missing; otherwise it returns the matching
\* records, in the order `order`, at most QueryLimit of them.
query(coll, recs, document_name, order) ==
    IF coll = "absent" THEN [raised |-> TRUE, rows |-> <<>>]
    ELSE LET matching == Filter(recs, document_name)
             n == Len(matching)
             returned == [i \in 1..n |-> matching[order[i]]]
         IN  [raised |-> FALSE, rows |-> SubSeq(returned, 1, Min(n, QueryLimit))]

\* _as_int(meta.get("chunk_index")): None when the key is missing or no int
_as_int(meta, key) ==
    IF key \in DOMAIN meta /\ meta[key].t = "int"
    THEN [some |-> TRUE, n |-> meta[key].n]
    ELSE [some |-> FALSE, n |-> 0]

\* Faulty variant of PyIndex: a negative i counts from the front.
PyIndex_FromFront(seq, i) == IF i < 0 THEN seq[-i] ELSE seq[i + 1]

\* seq[i] with Python's indexing: 0-based, a negative i counting from the end
PyIndex(seq, i) == IF i < 0 THEN seq[Len(seq) + i + 1] ELSE seq[i + 1]

\* Faulty variant of depth_requested: the test is depth < 0.
depth_requested_LtZero(depth) == IF depth < 0 THEN 1 ELSE depth

\* if payload.depth < 1: depth_requested = 1, else payload.depth
depth_requested(depth) == IF depth < 1 THEN 1 ELSE depth

\* the first row whose chunk_index is the requested one; 0 when there is none
RECURSIVE target_chunk(_, _, _)
target_chunk(rows, chunk_index, i) ==
    IF i > Len(rows) THEN 0
    ELSE IF _as_int(rows[i].metadata, "chunk_index") = [some |-> TRUE, n |-> chunk_index]
         THEN i
         ELSE target_chunk(rows, chunk_index, i + 1)

\* SectionChunkHit of a row
SectionChunkHit(ch, chunk_headings, payload) ==
    LET idx_val == _as_int(ch.metadata, "chunk_index")
    IN  [chunk_index |-> IF idx_val.some THEN idx_val.n ELSE -1,
         document_name |-> IF "document_name" \in DOMAIN ch.metadata
                           THEN PyStr(ch.metadata["document_name"])
                           ELSE payload.document_name,
         text |-> ch.text,
         headings |-> chunk_headings,
         metadata |-> ch.metadata]

\* Faulty variant of matches: only the last heading of a row is compared.
RECURSIVE matches_LeafOnly(_, _, _)
matches_LeafOnly(rows, target_heading, payload) ==
    IF rows = <<>> THEN <<>>
    ELSE LET chunk_headings == _headings_from_metadata(Head(rows).metadata)
             rest == matches_LeafOnly(Tail(rows), target_heading, payload)
         IN  IF chunk_headings.some
                /\ chunk_headings.v[Len(chunk_headings.v)] = target_heading
             THEN <<SectionChunkHit(Head(rows), chunk_headings, payload)>> \o rest
             ELSE rest

\* the rows whose recomputed heading path holds target_heading, as hits
RECURSIVE matches(_, _, _)
matches(rows, target_heading, payload) ==
    IF rows = <<>> THEN <<>>
    ELSE LET chunk_headings == _headings_from_metadata(Head(rows).metadata)
             rest == matches(Tail(rows), target_heading, payload)
         IN  IF \E i \in 1..Len(chunk_headings.v) : chunk_headings.v[i] = target_heading
             THEN <<SectionChunkHit(Head(rows), chunk_headings, payload)>> \o rest
             ELSE rest

\* matches.sort(key=lambda m: m.chunk_index): a stable insertion sort
RECURSIVE Insert(_, _)
Insert(sortedHits, m) ==
    IF sortedHits = <<>> THEN <<m>>
    ELSE IF sortedHits[Len(sortedHits)].chunk_index <= m.chunk_index
         THEN Append(sortedHits, m)
         ELSE Append(Insert(SubSeq(sortedHits, 1, Len(sortedHits) - 1), m),
                     sortedHits[Len(sortedHits)])

\* Faulty variant of sort: the hits stay in the order the store returned them.
sort_Unsorted(hits) == hits

RECURSIVE sort(_)
sort(hits) ==
    IF hits = <<>> THEN <<>>
    ELSE Insert(sort(SubSeq(hits, 1, Len(hits) - 1)), hits[Len(hits)])

\* Faulty variant of chunks_by_heading: a document without rows is answered
\* with a successful empty result.
chunks_by_heading_EmptyList(payload, q) ==
    LET t == target_chunk(q.rows, payload.chunk_index, 1)
        headings == _headings_from_metadata(q.rows[t].metadata)
        depth_used == Min(depth_requested(payload.depth), Len(headings.v))
        target_heading == PyIndex(headings.v, -depth_used)
    IN  IF q.raised THEN HTTPException(payload, 500, "Milvus query failed")
        ELSE IF q.rows = <<>> THEN SectionChunksResponse(payload, 0, NoneV, <<>>)
        ELSE IF t = 0 THEN HTTPException(payload, 404, "Chunk not found in document")
        ELSE IF ~headings.some THEN SectionChunksResponse(payload, 0, NoneV, <<>>)
        ELSE SectionChunksResponse(payload, depth_used, Some(target_heading),
                                   sort(matches(q.rows, target_heading, payload)))

\* The whole handler, given what the store query answered.
chunks_by_heading(payload, q) ==
    LET t == target_chunk(q.rows, payload.chunk_index, 1)
        headings == _headings_from_metadata(q.rows[t].metadata)
        depth_used == Min(depth_requested(payload.depth), Len(headings.v))
        target_heading == PyIndex(headings.v, -depth_used)
    IN  IF q.raised THEN HTTPException(payload, 500, "Milvus query failed")
        ELSE IF q.rows = <<>>
        THEN HTTPException(payload, 404, "Document not found in Milvus")
        ELSE IF t = 0 THEN HTTPException(payload, 404, "Chunk not found in document")
        ELSE IF ~headings.some THEN SectionChunksResponse(payload, 0, NoneV, <<>>)
        ELSE SectionChunksResponse(payload, depth_used, Some(target_heading),
                                   sort(matches(q.rows, target_heading, payload)))

\* ---------------------------------------------------------- YandexTokenizer
\* len(text.split()): the maximal runs of non-blank symbols
RECURSIVE WordCount(_, _)
WordCount(text, inWord) ==
    IF text = <<>> THEN 0
    ELSE IF IsSpace(Head(text)) THEN WordCount(Tail(text), FALSE)
    ELSE (IF inWord THEN 0 ELSE 1) + WordCount(Tail(text), TRUE)

\* What the network does to a request: it times out, the transport fails, or
\* a response with a status comes back (for the tokenize POST, with `tokens`
\* tokens in its body).  A body that is no JSON makes response.json() raise
\* json_exc: "RequestException" with requests 2.27 or later (its
\* JSONDecodeError), a plain "ValueError" before.
Timeout == [kind |-> "Timeout", status |-> 0, tokens |-> 0, json_exc |-> "none"]
ConnectionError ==
    [kind |-> "ConnectionError", status |-> 0, tokens |-> 0, json_exc |-> "none"]
HttpResponse(status, tokens) ==
    [kind |-> "response", status |-> status, tokens |-> tokens, json_exc |-> "none"]
BadBody(json_exc) ==
    [kind |-> "response", status |-> 200, tokens |-> 0, json_exc |-> json_exc]
NotSent == [kind |-> "none", status |-> 0, tokens |-> 0, json_exc |-> "none"]

ProbeOutcomes == {Timeout, ConnectionError} \cup
                 {HttpResponse(st, 0) : st \in {200, 405, 500, 503}}
PostOutcomes == {Timeout, ConnectionError, HttpResponse(403, 0), HttpResponse(500, 0),
                 BadBody("RequestException"), BadBody("ValueError")}
                \cup {HttpResponse(200, n) : n \in 0..MaxTokens}

\* Faulty variant of _is_api_reachable: a 4xx response counts as unreachable.
_is_api_reachable_Below400(flag, probe) ==
    IF flag # "None"
    THEN [reachable |-> flag = "True", flag |-> flag, probe |-> NotSent]
    ELSE LET reachable == probe.kind = "response" /\ probe.status < 400
         IN  [reachable |-> reachable,
              flag |-> IF reachable THEN "True" ELSE "False",
              probe |-> probe]

\* Faulty variant of _is_api_reachable: the cache test is `if flag:`, so an
\* unreachable result is probed again.
_is_api_reachable_Truthy(flag, probe) ==
    IF flag = "True"
    THEN [reachable |-> TRUE, flag |-> flag, probe |-> NotSent]
    ELSE LET reachable == probe.kind = "response" /\ probe.status < 500
         IN  [reachable |-> reachable,
              flag |-> IF reachable THEN "True" ELSE "False",
              probe |-> probe]

\* _is_api_reachable on an instance whose _endpoint_reachable is `flag`:
\* the value returned, the new flag, and the probe's outcome if one was sent
_is_api_reachable(flag, probe) ==
    IF flag # "None"
    THEN [reachable |-> flag = "True", flag |-> flag, probe |-> NotSent]
    ELSE LET reachable == probe.kind = "response" /\ probe.status < 500
         IN  [reachable |-> reachable,
              flag |-> IF reachable THEN "True" ELSE "False",
              probe |-> probe]

\* _tokenize_via_api: exc is the exception it raises ("none" when it returns),
\* tokens the length of the list it returns, post the POST's outcome if sent
_tokenize_via_api(model_name_set, post) ==
    IF ~model_name_set THEN [exc |-> "none", tokens |-> 0, post |-> NotSent]
    ELSE IF post.kind = "Timeout" THEN [exc |-> "Timeout", tokens |-> 0, post |-> post]
    ELSE IF post.kind = "ConnectionError" \/ post.status >= 400
    THEN [exc |-> "RequestException", tokens |-> 0, post |-> post]
    ELSE [exc |-> post.json_exc, tokens |-> post.tokens, post |-> post]

\* Faulty variant of count_tokens: a failed request does not clear the flag.
count_tokens_NoLatch(flag, text, probe, model_name_set, post) ==
    LET r == _is_api_reachable(flag, probe)
        t == _tokenize_via_api(model_name_set, post)
    IN  IF ~r.reachable
        THEN [result |-> WordCount(text, FALSE), flag |-> r.flag,
              probe |-> r.probe, post |-> NotSent, raised |-> FALSE]
        ELSE IF t.exc \in {"Timeout", "RequestException"}
        THEN [result |-> WordCount(text, FALSE), flag |-> r.flag,
              probe |-> r.probe, post |-> t.post, raised |-> FALSE]
        ELSE IF t.exc # "none"
        THEN [result |-> 0, flag |-> r.flag,
              probe |-> r.probe, post |-> t.post, raised |-> TRUE]
        ELSE [result |-> IF t.tokens > 0 THEN t.tokens ELSE WordCount(text, FALSE),
              flag |-> r.flag, probe |-> r.probe, post |-> t.post, raised |-> FALSE]

\* count_tokens: the value returned, the new flag and the traffic of the call
count_tokens(flag, text, probe, model_name_set, post) ==
    LET r == _is_api_reachable(flag, probe)
        t == _tokenize_via_api(model_name_set, post)
    IN  IF ~r.reachable
        THEN [result |-> WordCount(text, FALSE), flag |-> r.flag,
              probe |-> r.probe, post |-> NotSent, raised |-> FALSE]
        ELSE IF t.exc \in {"Timeout", "RequestException"}
        THEN [result |-> WordCount(text, FALSE), flag |-> "False",
              probe |-> r.probe, post |-> t.post, raised |-> FALSE]
        ELSE IF t.exc # "none"
        THEN [result |-> 0, flag |-> r.flag,
              probe |-> r.probe, post |-> t.post, raised |-> TRUE]
        ELSE [result |-> IF t.tokens > 0 THEN t.tokens ELSE WordCount(text, FALSE),
              flag |-> r.flag, probe |-> r.probe, post |-> t.post, raised |-> FALSE]

Texts == { <<>>, <<"a">>, <<"a", " ", "b", " ", "c">>, <<" ", "a", "b", "\n", " ", "c", " ">> }

Sent(outcome) == IF outcome.kind = "none" THEN 0 ELSE 1

\* tk: which call ran last, on what text, what it returned (result for
\* count_tokens, reachable for _is_api_reachable) and what it sent
TkCall(call, text, result, reachable, raised, probe, post) ==
    [call |-> call, text |-> text, result |-> result, reachable |-> reachable,
     raised |-> raised, probe |-> probe, post |-> post]

\* ------------------------------------------------------------- the service
\* The requests: every stored document is stored under FileA by some directory.
Payloads == [document_name : {FileA},
             chunk_index : 0..MaxChunkIndex,
             depth : -1..MaxDepth]

SvcInit ==
    /\ upload_dir = NoDir
    /\ collection = "absent"
    /\ store = <<>>
    /\ gen = 0
    /\ resp = NoResponse

TokIdle ==
    /\ endpoint_reachable = "None"
    /\ probes = 0
    /\ posts = 0
    /\ instances = 1
    /\ tk = TkCall("none", <<>>, 0, FALSE, FALSE, NotSent, NotSent)

\* POST /api/v1/doc/index, the upload directory holding `dir` when it is read
IndexDocument ==
    /\ gen < MaxGen
    /\ \E dir \in UploadDirs :
       \E rc \in RecreateOutcomes :
       \E add_ok \in BOOLEAN :
          LET r == index_document(dir, collection, store, gen + 1, rc, add_ok)
          IN  /\ upload_dir' = dir
              /\ collection' = r.collection
              /\ store' = r.store
              /\ resp' = r.resp
    /\ gen' = gen + 1
    /\ UNCHANGED <<tok_vars, norm_vars, conc_vars>>

\* POST /api/v1/doc/chunks-by-heading
ChunksByHeading ==
    /\ \E payload \in Payloads :
       \E order \in Orders(Len(Filter(store, payload.document_name))) :
          resp' = chunks_by_heading(payload,
                      query(collection, store, payload.document_name, order))
    /\ UNCHANGED <<upload_dir, collection, store, gen>>
    /\ UNCHANGED <<tok_vars, norm_vars, conc_vars>>

\* tokenizer = YandexTokenizer() in DocProcessor.process_single_file
NewTokenizer ==
    /\ instances < MaxInstances
    /\ instances' = instances + 1
    /\ endpoint_reachable' = "None"
    /\ probes' = 0
    /\ posts' = 0
    /\ tk' = TkCall("none", <<>>, 0, FALSE, FALSE, NotSent, NotSent)
    /\ UNCHANGED <<svc_vars, norm_vars, conc_vars>>

\* tokenizer._is_api_reachable() in DocProcessor.process_single_file
IsApiReachable ==
    /\ \E probe \in ProbeOutcomes :
          LET r == _is_api_reachable(endpoint_reachable, probe)
          IN  /\ endpoint_reachable' = r.flag
              /\ probes' = probes + Sent(r.probe)
              /\ tk' = TkCall("_is_api_reachable", <<>>, 0, r.reachable, FALSE,
                              r.probe, NotSent)
    /\ UNCHANGED <<posts, instances>>
    /\ UNCHANGED <<svc_vars, norm_vars, conc_vars>>

\* tokenizer.count_tokens(text), called by the chunker
CountTokens ==
    /\ \E text \in Texts :
       \E probe \in ProbeOutcomes :
       \E model_name_set \in BOOLEAN :
       \E post \in PostOutcomes :
          LET r == count_tokens(endpoint_reachable, text, probe, model_name_set, post)
          IN  /\ posts + Sent(r.post) <= MaxPosts
              /\ endpoint_reachable' = r.flag
              /\ probes' = probes + Sent(r.probe)
              /\ posts' = posts + Sent(r.post)
              /\ tk' = TkCall("count_tokens", text, r.result, FALSE, r.raised,
                              r.probe, r.post)
    /\ UNCHANGED instances
    /\ UNCHANGED <<svc_vars, norm_vars, conc_vars>>

\* ---------------------------------------- the metadata helpers on their own
\* longest heading list given to _headings_from_metadata
MaxHeadings == 2

\* Heading titles: numbered ones, a blank one, one holding an apostrophe and
\* one holding a closing bracket.
HBlank == <<" ">>
HQuote == <<"i", "t", "'", "s", " ">>
HBracket == <<"[", "1", "]", " ">>
Titles == {H1, H12, HBlank, HQuote, HBracket}

HeadingLists == UNION {[1..n -> Titles] : n \in 0..MaxHeadings}

\* The two places a chunk's attributes carry its heading path: the structured
\* "headings" list (hl: None when the key is missing), and "meta", the str()
\* of the chunk's DocMeta (hm.present tells whether the key is there,
\* hm.headings is the heading list of that DocMeta).
NoMeta == [present |-> FALSE, headings |-> NoneV]
Meta(headings) == [present |-> TRUE, headings |-> headings]
MetaFull(hl, hm) ==
    [k \in (IF hl.some THEN {"headings"} ELSE {}) \cup
           (IF hm.present THEN {"meta"} ELSE {}) |->
        IF k = "headings" THEN ListV(hl.v) ELSE StrV(DocMetaStr(hm.headings))]

NoDict == [k \in {} |-> StrV(<<>>)]
NoChunk == [attrs |-> NoDict, repr |-> <<>>]
FnCall(op, hl, hm, chunk, idx, document_name, headings, out) ==
    [op |-> op, hl |-> hl, hm |-> hm, chunk |-> chunk, idx |-> idx,
     document_name |-> document_name, headings |-> headings, out |-> out]
NoCall == FnCall("none", NoneV, NoMeta, NoChunk, 0, <<>>, NoneV,
                 [text |-> <<>>, metadata |-> NoDict])

NormIdle == fn = NoCall

\* The arguments of _headings_from_metadata: every heading list in either
\* place alone, and in "headings" next to a "meta" that is missing, without
\* headings, with the same headings or with other ones.
HeadingArgs ==
    {<<NoneV, hm>> : hm \in {NoMeta, Meta(NoneV)}
                            \cup {Meta(Some(l)) : l \in HeadingLists}}
    \cup UNION {{<<Some(l), hm>> : hm \in {NoMeta, Meta(NoneV), Meta(Some(l)),
                                           Meta(Some(<<H12>>))}}
                : l \in HeadingLists}

\* The attributes a block may carry besides its text, with the values it
\* carries them with: names the normalizer assigns itself, deny-listed ones,
\* a DocMeta (which json.dumps rejects) and a page number.
BlockValues ==
    [source |-> StrV(<<"pdf">>),
     chunk_index |-> IntV(7),
     document_name |-> StrV(<<"o", ".docx">>),
     doc_items |-> ObjV(<<"DocItem">>),
     model_config |-> StrV(<<"cfg">>),
     meta |-> ObjV(DocMetaStr(Some(<<H1>>))),
     page |-> IntV(3)]

\* what a block's "headings" attribute may be: missing, a list of str, a
\* str, or an object json.dumps rejects
BlockHeadings == {NoneV, Some(ListV(<<H1, H12>>)), Some(StrV(H1)),
                  Some(ObjV(<<"Headings">>))}

Block(keys, headings) ==
    [attrs |-> [k \in {"text"} \cup keys
                       \cup (IF headings.some THEN {"headings"} ELSE {}) |->
                   IF k = "text" THEN StrV(<<"x", " ">>)
                   ELSE IF k = "headings" THEN headings.v
                   ELSE BlockValues[k]],
     repr |-> <<"text=">> \o ReprStr(<<"x", " ">>)]

Blocks == {Block(keys, h) : keys \in SUBSET DOMAIN BlockValues, h \in BlockHeadings}

\* a call about to be made: its arguments are set, its result is not
Pending(op, hl, hm, chunk, idx, document_name) ==
    FnCall(op, hl, hm, chunk, idx, document_name, NoneV, NoCall.out)

\* _headings_from_metadata(meta_full)
HeadingsFromMetadata ==
    /\ fn.op = "call _headings_from_metadata"
    /\ fn' = [fn EXCEPT !.op = "_headings_from_metadata",
                        !.headings = _headings_from_metadata(MetaFull(fn.hl, fn.hm))]
    /\ UNCHANGED <<svc_vars, tok_vars, conc_vars>>

\* ------------------------------------------ overlapping index operations
\* FastAPI runs a def handler in a thread pool, one thread a request: the
\* calls a handler makes on the store interleave with those of the others.
\* Two POST /index requests, and chunks_by_heading requests next to them.
Workers == {1, 2}

\* client.release_collection, has_collection and drop_collection
drop_collection(coll, recs) == [collection |-> "absent", store |-> <<>>]

\* client.create_collection, create_index and load_collection; a collection
\* another request has created in between (same name, same schema) is kept
create_collection(coll, recs) == [collection |-> "loaded", store |-> recs]

\* Faulty variant of add_texts: nothing is written, and nothing is raised.
add_texts_NothingWritten(coll, recs, pairs, g) ==
    IF coll = "absent" THEN [raised |-> TRUE, store |-> recs]
    ELSE [raised |-> FALSE, store |-> recs]

\* milvus_store.add_texts(texts, metadatas): the insert is refused when the
\* collection is missing
add_texts(coll, recs, pairs, g) ==
    IF coll = "absent" THEN [raised |-> TRUE, store |-> recs]
    ELSE [raised |-> FALSE, store |-> recs \o Tagged(pairs, g)]

\* the names of the documents that have a record in the store
RECURSIVE DocumentNames(_)
DocumentNames(recs) ==
    IF recs = <<>> THEN {}
    ELSE {Head(recs).metadata["document_name"].s} \cup DocumentNames(Tail(recs))

\* what the upload directory holds while the two requests run
ConcDirs ==
    { Dir(OneFile(FileA, DocRepeat)),
      Dir(TwoFiles(FileA, DocAllBlank, FileB, DocNoChunks)),
      Dir(OneFile(FileN, DocSection)),
      NoDir }

\* the chunks_by_heading requests sent next to them
ConcPayloads == {p \in Payloads : p.chunk_index = 0 /\ p.depth = 1}

Snapshot == [w \in Workers |-> [pc |-> pc[w], inserted |-> wresp[w].inserted]]

ConcIdle ==
    /\ pc = [w \in Workers |-> "idle"]
    /\ wresp = [w \in Workers |-> NoResponse]
    /\ had = [w \in Workers |-> {}]
    /\ at = [w \in Workers |-> [pc |-> "idle", inserted |-> 0]]

\* index_document up to recreate_collection(): the directory checks
StartIndex(w) ==
    /\ pc[w] = "idle"
    /\ had' = [had EXCEPT ![w] = DocumentNames(store)]
    /\ IF ~upload_dir.exists
       THEN /\ pc' = [pc EXCEPT ![w] = "done"]
            /\ wresp' = [wresp EXCEPT ![w] = IndexError("Upload dir does not exist")]
       ELSE IF doc_files(upload_dir) = {}
       THEN /\ pc' = [pc EXCEPT ![w] = "done"]
            /\ wresp' = [wresp EXCEPT ![w] = IndexResponse(0)]
       ELSE /\ pc' = [pc EXCEPT ![w] = "drop"]
            /\ UNCHANGED wresp
    /\ UNCHANGED <<svc_vars, tok_vars, norm_vars, at>>

\* recreate_collection(), steps 1 and 2: release and drop
DropCollection(w) ==
    /\ pc[w] = "drop"
    /\ LET r == drop_collection(collection, store)
       IN  collection' = r.collection /\ store' = r.store
    /\ pc' = [pc EXCEPT ![w] = "create"]
    /\ UNCHANGED <<upload_dir, gen, resp, tok_vars, norm_vars, wresp, had, at>>

\* recreate_collection(), the rest: create, index and load
CreateCollection(w) ==
    /\ pc[w] = "create"
    /\ LET r == create_collection(collection, store)
       IN  collection' = r.collection /\ store' = r.store
    /\ pc' = [pc EXCEPT ![w] = "insert"]
    /\ UNCHANGED <<upload_dir, gen, resp, tok_vars, norm_vars, wresp, had, at>>

\* index_document after recreate_collection(): the files are processed and
\* their chunks inserted with one add_texts
InsertChunks(w) ==
    /\ pc[w] = "insert"
    /\ LET pairs == ProcessFiles(sorted(doc_files(upload_dir)), upload_dir)
           r == add_texts(collection, store, pairs, w)
       IN  IF pairs = <<>>
           THEN /\ wresp' = [wresp EXCEPT ![w] = IndexResponse(0)]
                /\ UNCHANGED store
           ELSE /\ store' = r.store
                /\ wresp' = [wresp EXCEPT ![w] =
                                 IF r.raised
                                 THEN IndexError("Failed to insert chunks into Milvus")
                                 ELSE IndexResponse(Len(pairs))]
    /\ pc' = [pc EXCEPT ![w] = "done"]
    /\ UNCHANGED <<upload_dir, collection, gen, resp, tok_vars, norm_vars, had, at>>

\* POST /api/v1/doc/chunks-by-heading while index requests run
QueryDuringIndex ==
    /\ \E payload \in ConcPayloads :
       \E order \in Orders(Len(Filter(store, payload.document_name))) :
          resp' = chunks_by_heading(payload,
                      query(collection, store, payload.document_name, order))
    /\ at' = Snapshot
    /\ UNCHANGED <<upload_dir, collection, store, gen, tok_vars, norm_vars,
                   pc, wresp, had>>

Init == SvcInit /\ TokIdle /\ NormIdle /\ ConcIdle
Next == IndexDocument \/ ChunksByHeading
Spec == Init /\ [][Next]_vars

\* One document-processing run after another, each with its own tokenizer.
TokNext == NewTokenizer \/ IsApiReachable \/ CountTokens
SpecTok == Init /\ [][TokNext]_vars

\* Two index requests and chunks_by_heading requests, their store calls
\* interleaved.
ConcInit ==
    /\ upload_dir \in ConcDirs
    /\ collection = "absent"
    /\ store = <<>>
    /\ gen = 0
    /\ resp = NoResponse
    /\ TokIdle
    /\ NormIdle
    /\ ConcIdle
ConcNext ==
    \/ \E w \in Workers : StartIndex(w)
    \/ \E w \in Workers : DropCollection(w)
    \/ \E w \in Workers : CreateCollection(w)
    \/ \E w \in Workers : InsertChunks(w)
    \/ QueryDuringIndex
SpecConc == ConcInit /\ [][ConcNext]_vars

\* The metadata helpers applied to one input after another.
\* _extract_text_and_metadata(chunk, idx, document_name)
ExtractTextAndMetadata ==
    /\ fn.op = "call _extract_text_and_metadata"
    /\ fn' = [fn EXCEPT !.op = "_extract_text_and_metadata",
                        !.out = _extract_text_and_metadata(fn.chunk, fn.idx,
                                                           fn.document_name)]
    /\ UNCHANGED <<svc_vars, tok_vars, conc_vars>>

NormInit ==
    /\ SvcInit
    /\ TokIdle
    /\ ConcIdle
    /\ fn \in {Pending("call _headings_from_metadata", a[1], a[2], NoChunk, 0, <<>>)
                : a \in HeadingArgs}
              \cup {Pending("call _extract_text_and_metadata", NoneV, NoMeta,
                            b, idx, FileA)
                    : b \in Blocks, idx \in 0..MaxChunkIndex}
NormNext == HeadingsFromMetadata \/ ExtractTextAndMetadata
SpecNorm == NormInit /\ [][NormNext]_vars

\* ================================================================= claims
IndexSucceeded == resp.op = "index_document" /\ resp.status = 200

\* the chunk_index values stored for a document
StoredIndexes(name) ==
    LET recs == Filter(store, name)
    IN  {recs[i].metadata["chunk_index"].n : i \in 1..Len(recs)}

\* C1: every index operation discards the chunks of prior generations before
\* inserting: after an index operation has returned, every record of the
\* store was inserted by that operation (gen counts the index operations, so
\* the most recent one is number gen).
C1_OnlyLatestGeneration ==
    IndexSucceeded => \A i \in 1..Len(store) : store[i].gen = gen

KeptPositions(file) ==
    {i - 1 : i \in {j \in 1..Len(file.chunks) :
                       _extract_text_and_metadata(file.chunks[j], 0, <<>>).text # <<>>}}

Written == SelectSeq(store, LAMBDA rec : rec.gen = gen)

\* the latest request was an index operation that got past the directory
\* checks and through recreate_collection and add_texts
Indexed == IndexSucceeded /\ doc_files(upload_dir) # {}

\* C14: in a batch index operation a file whose conversion or chunking raises
\* is skipped and contributes no chunk, and every other file is still
\* processed and its chunks inserted: the operation answers 200, nothing is
\* stored for a raising file, and every chunk with text of every other file
\* is stored, whatever file raised before or after it.
C14_FailedFileSkipped ==
    /\ resp.op = "index_document" /\ resp.status = 500 =>
           resp.detail \in {"Upload dir does not exist", "Internal Server Error",
                            "Failed to insert chunks into Milvus"}
    /\ Indexed =>
           \A name \in doc_files(upload_dir) :
               LET file == upload_dir.files[name]
               IN  Len(Filter(Written, name)) =
                       IF file.raises THEN 0 ELSE Cardinality(KeptPositions(file))

\* C14 witness: an index operation over a directory whose first file raises
\* has stored the three chunks of the second file.
C14_Witness ==
    /\ Indexed
    /\ upload_dir.files[FileA].raises
    /\ Filter(store, FileA) = <<>>
    /\ Len(Filter(store, FileB)) = 3
    /\ resp.inserted = 3

\* C15: no chunk whose text is empty after stripping is ever persisted; each
\* persisted text is stored with the attributes of the same chunk (the chunk
\* at position chunk_index of the file document_name, whose own text
\* attribute is that text); and an index operation that returns successfully
\* reports as inserted the number of chunks it wrote.
C15_TextsPairedAndCounted ==
    /\ \A i \in 1..Len(store) :
           /\ strip(store[i].text) # <<>>
           /\ strip(store[i].metadata["text"].s) = store[i].text
    /\ \A i \in 1..Len(Written) :
           LET rec == Written[i]
               name == rec.metadata["document_name"].s
               idx == rec.metadata["chunk_index"].n
           IN  /\ name \in doc_files(upload_dir)
               /\ idx < Len(upload_dir.files[name].chunks)
               /\ LET tm == _extract_text_and_metadata(
                                upload_dir.files[name].chunks[idx + 1], idx, name)
                  IN  rec.text = tm.text /\ rec.metadata = tm.metadata
    /\ IndexSucceeded => resp.inserted = Len(Written)

\* C15 witness: an index operation over a file with a blank chunk and a file
\* without one has written, and reported, four chunks.
C15_Witness ==
    /\ Indexed
    /\ Len(upload_dir.files[FileA].chunks) = 3
    /\ Cardinality(KeptPositions(upload_dir.files[FileA])) = 2
    /\ resp.inserted = 4
    /\ Len(Written) = 4

\* ------------------------------------------------ chunks_by_heading claims
Answered == resp.op = "chunks_by_heading"
Resolved == Answered /\ resp.status = 200 /\ resp.target_heading.some

\* the records stored for the requested document, in insertion order
Stored == Filter(store, resp.req.document_name)

\* the positions in Stored of the records with the requested chunk_index
Located == {i \in 1..Len(Stored) :
               Stored[i].metadata["chunk_index"].n = resp.req.chunk_index}

\* the heading path of a stored record, recomputed from its metadata
PathOf(rec) == _headings_from_metadata(rec.metadata)

Contains(path, heading) == \E i \in 1..Len(path.v) : path.v[i] = heading

\* C5: chunks_by_heading yields one of four outcomes, decided in this order:
\* no stored chunk of the document -> "document not found"; else no chunk
\* with the requested chunk_index -> "chunk not found"; else the located
\* chunk has no heading path -> success with no results and no target
\* heading; else success with a target heading.  (The handler reaches this
\* decision whenever the store answers the query, that is, whenever the
\* collection exists; a missing collection is the store's failure, status 500.)
C5_FourOutcomesInOrder ==
    Answered =>
        IF collection = "absent"
        THEN resp.status = 500 /\ resp.detail = "Milvus query failed"
        ELSE IF Stored = <<>>
        THEN resp.status = 404 /\ resp.detail = "Document not found in Milvus"
        ELSE IF Located = {}
        THEN resp.status = 404 /\ resp.detail = "Chunk not found in document"
        ELSE IF \A i \in Located : ~PathOf(Stored[i]).some
        THEN /\ resp.status = 200
             /\ resp.results = <<>>
             /\ resp.target_heading = NoneV
        ELSE resp.status = 200 /\ resp.target_heading.some

\* C5 witness: the third outcome, a located chunk without heading path,
\* answered with a successful empty result.
C5_Witness ==
    /\ Answered /\ resp.status = 200 /\ resp.results = <<>>
    /\ Located # {} /\ \A i \in Located : ~PathOf(Stored[i]).some

\* C6: when a target heading is resolved, the results are exactly the stored
\* chunks of the document whose recomputed heading path contains the target
\* heading: none missing, none extra, none twice, the queried chunk among them.
C6_ResultsAreTheSection ==
    Resolved =>
        LET target == resp.target_heading.v
            section == {i \in 1..Len(Stored) : Contains(PathOf(Stored[i]), target)}
            hit(i) == <<Stored[i].metadata["chunk_index"].n, Stored[i].text,
                        PathOf(Stored[i])>>
            got(k) == <<resp.results[k].chunk_index, resp.results[k].text,
                        resp.results[k].headings>>
        IN  /\ {got(k) : k \in 1..Len(resp.results)} = {hit(i) : i \in section}
            /\ Len(resp.results) = Cardinality(section)
            /\ \E k \in 1..Len(resp.results) :
                   resp.results[k].chunk_index = resp.req.chunk_index

\* C6 witness: a section of several chunks was returned, one of them not the
\* queried chunk, while another stored chunk of the document was left out.
C6_Witness ==
    /\ Resolved
    /\ \E k \in 1..Len(resp.results) :
           resp.results[k].chunk_index # resp.req.chunk_index
    /\ Len(resp.results) < Len(Stored)

C8_DepthClamped ==
    Resolved =>
        \A i \in Located :
            LET path == PathOf(Stored[i]).v
                k == resp.req.depth
                d == Min(IF k > 1 THEN k ELSE 1, Len(path))
            IN  /\ resp.depth_used = d
                /\ resp.target_heading.v = path[Len(path) - d + 1]
                /\ (k = 1 => resp.target_heading.v = path[Len(path)])
                /\ (k >= Len(path) => resp.target_heading.v = path[1])

\* C8 witness: a request deeper than the located chunk's heading path of two
\* or more headings was answered with the path's length as depth_used.
C8_Witness ==
    /\ Resolved
    /\ resp.depth_used < resp.req.depth
    /\ resp.depth_used >= 2

\* what a response says, apart from the request it answers
Outcome(r) == [r EXCEPT !.req = NoReq]

\* C9: a request with depth 0 or a negative depth has the same outcome as the
\* request with depth 1 for the same document and chunk: of two successive
\* requests that differ at most in a depth <= 1, the second has the outcome of
\* the first.
C9_DepthBelowOneIsOne ==
    [][ ( /\ resp.op = "chunks_by_heading" /\ resp'.op = "chunks_by_heading"
          /\ resp'.req.document_name = resp.req.document_name
          /\ resp'.req.chunk_index = resp.req.chunk_index
          /\ resp.req.depth <= 1 /\ resp'.req.depth <= 1 )
        => Outcome(resp') = Outcome(resp) ]_vars

\* C9 witness: a request with a depth below 1 was answered with a section.
C9_Witness == Resolved /\ resp.req.depth < 1 /\ Len(resp.results) >= 2

\* C10: two successive calls with the same request have identical outcomes,
\* whatever order the store returns the records in, and a call does not
\* change the store.
C10_Idempotent ==
    [][ /\ ( resp.op = "chunks_by_heading" /\ resp'.op = "chunks_by_heading"
             /\ resp'.req = resp.req ) => resp' = resp
        /\ ( resp'.op = "chunks_by_heading" /\ gen' = gen )
             => store' = store /\ collection' = collection ]_vars

\* C10 witness: a call returned two chunks (which the store may return in
\* either order).
C10_Witness == Resolved /\ Len(resp.results) = 2

\* C18: increasing the depth only broadens the sibling set: of two successive
\* requests for the same document and chunk_index on the same store, both
\* answered with a section, the second with the larger depth (1 <= k < k'),
\* every chunk the first returned is returned by the second.
C18_DeeperIsBroader ==
    [][ ( /\ Resolved /\ Resolved'
          /\ gen' = gen
          /\ resp'.req.document_name = resp.req.document_name
          /\ resp'.req.chunk_index = resp.req.chunk_index
          /\ 1 <= resp.req.depth /\ resp.req.depth < resp'.req.depth )
        => \A k \in 1..Len(resp.results) :
               \E j \in 1..Len(resp'.results) :
                   /\ resp'.results[j].chunk_index = resp.results[k].chunk_index
                   /\ resp'.results[j].text = resp.results[k].text ]_vars

\* --------------------------------------------------------- tokenizer claims
\* a request that timed out or failed in transport
Failed(outcome) == outcome.kind \in {"Timeout", "ConnectionError"}

\* the state after a count_tokens call in which the probe or the POST failed
FailedCall == tk.call = "count_tokens" /\ (Failed(tk.probe) \/ Failed(tk.post))

\* C3: a count_tokens call in which the probe or the tokenize request times
\* out or fails in transport returns the word count of its text without
\* raising and leaves the instance unreachable; and on an unreachable
\* instance every later count_tokens call returns the word count, nothing is
\* sent, and the instance stays unreachable.
C3_StickyFallback ==
    [][ /\ FailedCall' =>
              /\ ~tk'.raised
              /\ tk'.result = WordCount(tk'.text, FALSE)
              /\ endpoint_reachable' = "False"
        /\ (endpoint_reachable = "False" /\ instances' = instances) =>
              /\ endpoint_reachable' = "False"
              /\ probes' = probes /\ posts' = posts
              /\ tk'.probe = NotSent /\ tk'.post = NotSent
              /\ (tk'.call = "count_tokens" =>
                     ~tk'.raised /\ tk'.result = WordCount(tk'.text, FALSE)) ]_vars

\* C3 witness: the probe succeeded, a later tokenize request timed out, and
\* the call returned the three words of its text.
C3_Witness ==
    /\ tk.call = "count_tokens" /\ tk.post = Timeout /\ tk.probe = NotSent
    /\ tk.result = 3 /\ endpoint_reachable = "False" /\ probes = 1

\* C4: one tokenizer instance sends the reachability probe at most once,
\* whatever its result: once the result is cached no call sends a probe, and
\* _is_api_reachable returns the cached value.
C4_ProbeOnce ==
    [][ /\ probes' <= 1
        /\ (endpoint_reachable # "None" /\ instances' = instances) =>
              /\ probes' = probes
              /\ tk'.probe = NotSent
              /\ (tk'.call = "_is_api_reachable" =>
                     tk'.reachable = (endpoint_reachable = "True")) ]_vars

\* C4 witness: after an unreachable probe result, _is_api_reachable was
\* called again and answered from the cache.
C4_Witness ==
    /\ tk.call = "_is_api_reachable" /\ tk.probe = NotSent
    /\ ~tk.reachable /\ probes = 1

\* a probe that got a response with a status below 500
Below500(probe) == probe.kind = "response" /\ probe.status < 500

\* C16: the reachability probe classifies a response by its status only: a
\* response with a status below 500 (a 4xx too) makes the instance reachable,
\* a 5xx response or a request exception makes it unreachable; and a
\* count_tokens call on a reachable instance whose tokenize request returns a
\* non-empty token list returns the length of that list, not the word count.
C16_ProbeByStatus ==
    /\ (tk.call = "_is_api_reachable" /\ tk.probe # NotSent) =>
           /\ tk.reachable = Below500(tk.probe)
           /\ endpoint_reachable = IF Below500(tk.probe) THEN "True" ELSE "False"
    /\ (tk.call = "count_tokens" /\ tk.probe # NotSent /\ ~Below500(tk.probe)) =>
           /\ endpoint_reachable = "False"
           /\ tk.post = NotSent
           /\ tk.result = WordCount(tk.text, FALSE)
    /\ (tk.call = "count_tokens" /\ tk.post.kind = "response"
           /\ tk.post.status < 400 /\ tk.post.json_exc = "none"
           /\ tk.post.tokens > 0) =>
           /\ tk.probe # NotSent => Below500(tk.probe)
           /\ ~tk.raised
           /\ tk.result = tk.post.tokens
           /\ endpoint_reachable = "True"

\* C16 witness: the probe was answered 405, the tokenize request returned two
\* tokens for a text of three words, and count_tokens returned 2.
C16_Witness ==
    /\ tk.call = "count_tokens"
    /\ tk.probe = HttpResponse(405, 0)
    /\ tk.post = HttpResponse(200, 2)
    /\ WordCount(tk.text, FALSE) = 3
    /\ tk.result = 2
    /\ endpoint_reachable = "True"

\* ------------------------------------------------ metadata helper claims
HeadingsApplied == fn.op = "_headings_from_metadata"

\* what the structured "headings" list of the call yields
Structured == IF fn.hl.some THEN StripNonEmpty(fn.hl.v) ELSE <<>>

\* the structured list is used when it yields an entry, otherwise the quoted
\* literals of the headings=[...] fragment of "meta"
C11_StructuredFirst ==
    HeadingsApplied =>
        fn.headings =
            IF Structured # <<>> THEN Some(Structured)
            ELSE IF fn.hm.present
                 THEN _extract_headings_from_meta(DocMetaStr(fn.hm.headings))
                 ELSE NoneV

\* the result is absent, or a non-empty list of trimmed, non-empty strings
C11_NeverEmpty ==
    HeadingsApplied /\ fn.headings.some =>
        /\ fn.headings.v # <<>>
        /\ \A i \in 1..Len(fn.headings.v) :
               fn.headings.v[i] # <<>> /\ strip(fn.headings.v[i]) = fn.headings.v[i]

\* a heading list given as the structured list alone gives what it gives as
\* the "meta" string alone
SameInEitherEncoding ==
    HeadingsApplied /\ fn.hl.some /\ ~fn.hm.present =>
        fn.headings = _headings_from_metadata(MetaFull(NoneV, Meta(fn.hl)))

\* C11: heading-path extraction uses the structured "headings" list when it
\* yields at least one non-empty trimmed entry and otherwise the quoted
\* literals of the headings=[...] fragment of "meta"; the same heading
\* sequence normalizes to the same list in either encoding; and the result is
\* absent or a non-empty list of trimmed, non-empty strings.
C11_SameListEitherEncoding ==
    C11_StructuredFirst /\ SameInEitherEncoding /\ C11_NeverEmpty

Normalized == fn.op = "_extract_text_and_metadata"

\* what the normalizer copies of a block's attribute: the value, or its
\* string form when json.dumps rejects it
Copied(val) == IF JsonSerializable(val) THEN val ELSE StrV(PyStr(val))

\* C12 as claimed: in the attributes the normalizer returns, chunk_index,
\* document_name and source always hold the caller-assigned values (the given
\* idx, the given document_name and the default source tag), whatever
\* same-named attribute the block supplied.
C12_CallerAssigned ==
    Normalized =>
        /\ fn.out.metadata["chunk_index"] = IntV(fn.idx)
        /\ fn.out.metadata["document_name"] = StrV(fn.document_name)
        /\ fn.out.metadata["source"] = StrV(<<"docling_upload">>)

\* C12 as amended: chunk_index and document_name always hold the given idx
\* and document_name, overwriting a same-named attribute of the block; source
\* holds the block's own source attribute when the block supplies one, and
\* the default tag "docling_upload" only when it supplies none.
C12_IndexAndNameAssigned ==
    Normalized =>
        /\ fn.out.metadata["chunk_index"] = IntV(fn.idx)
        /\ fn.out.metadata["document_name"] = StrV(fn.document_name)
        /\ fn.out.metadata["source"] =
               IF "source" \in DOMAIN fn.chunk.attrs
               THEN Copied(fn.chunk.attrs["source"])
               ELSE StrV(<<"docling_upload">>)

\* C12 witness: a block that supplies all three attributes was normalized;
\* its index and name were overwritten and its source was kept.
C12_Witness ==
    /\ Normalized
    /\ {"chunk_index", "document_name", "source"} \subseteq DOMAIN fn.chunk.attrs
    /\ fn.chunk.attrs["chunk_index"] # IntV(fn.idx)
    /\ fn.out.metadata["chunk_index"] = IntV(fn.idx)
    /\ fn.out.metadata["document_name"] = StrV(FileA)
    /\ fn.out.metadata["source"] = StrV(<<"pdf">>)

\* the attributes the normalizer assigns itself
Assigned == {"chunk_index", "document_name", "source"}

\* C13 as claimed: every block attribute is treated on its own: one that
\* json.dumps rejects appears under its key as its string form, every other
\* one outside the deny-list is copied unchanged, every deny-listed one is
\* absent, and no attribute is dropped because of another (the three
\* attributes the normalizer assigns itself are left to C12).
C13_FieldByField ==
    Normalized =>
        /\ DOMAIN fn.out.metadata = (DOMAIN fn.chunk.attrs \ DenyList) \cup Assigned
        /\ \A k \in DOMAIN fn.chunk.attrs \ (DenyList \cup Assigned) :
               fn.out.metadata[k] = Copied(fn.chunk.attrs[k])

\* C13 as amended: as claimed for every attribute but headings; a headings
\* attribute is kept when it is a list and replaced by the empty list when it
\* is anything else, representable (a str) or not (an object).
C13_FieldByFieldButHeadings ==
    Normalized =>
        /\ DOMAIN fn.out.metadata = (DOMAIN fn.chunk.attrs \ DenyList) \cup Assigned
        /\ \A k \in DOMAIN fn.chunk.attrs \ (DenyList \cup Assigned \cup {"headings"}) :
               fn.out.metadata[k] = Copied(fn.chunk.attrs[k])
        /\ "headings" \in DOMAIN fn.chunk.attrs =>
               fn.out.metadata["headings"] =
                   IF fn.chunk.attrs["headings"].t = "list"
                   THEN fn.chunk.attrs["headings"]
                   ELSE ListV(<<>>)

\* C13 witness: a block with a rejected attribute, a deny-listed one, a
\* representable one and a headings attribute that is no list was normalized:
\* the first is there as a string, the second is gone, the third is as it
\* was and the headings are the empty list.
C13_Witness ==
    /\ Normalized
    /\ {"meta", "doc_items", "page", "headings"} \subseteq DOMAIN fn.chunk.attrs
    /\ fn.chunk.attrs["headings"].t = "obj"
    /\ fn.out.metadata["meta"] = StrV(DocMetaStr(Some(<<H1>>)))
    /\ "doc_items" \notin DOMAIN fn.out.metadata
    /\ fn.out.metadata["page"] = IntV(3)
    /\ fn.out.metadata["headings"] = ListV(<<>>)

\* ------------------------------------------------------ concurrency claims
\* an index request is inside its window from its drop to its insert
Window == {"create", "insert"}

\* the answer says the document is not there: the collection was missing
\* (store failure) or held no record of it (document not found)
Missed ==
    /\ Answered
    /\ \/ resp.status = 500
       \/ resp.status = 404 /\ resp.detail = "Document not found in Milvus"

\* an index request over the upload directory stores the document
Indexable(name) ==
    /\ upload_dir.exists
    /\ name \in doc_files(upload_dir)
    /\ ~upload_dir.files[name].raises
    /\ KeptPositions(upload_dir.files[name]) # {}

\* C17: indexing is no atomic cutover for concurrent readers: a query may
\* find the collection missing or empty for a document that is stored both
\* before the index operation starts and after it finishes (the witness);
\* and this happens only to a query made while an index operation is between
\* its drop and its insert: a query made while none is there, after one has
\* inserted the document, finds it.
C17_MissedOnlyInsideWindow ==
    Missed /\ Indexable(resp.req.document_name) =>
        /\ (\E w \in Workers : resp.req.document_name \in had[w] /\ at[w].pc # "idle")
              => \E v \in Workers : at[v].pc \in Window
        /\ (\E w \in Workers : at[w].pc = "done" /\ at[w].inserted > 0)
              => \E v \in Workers : at[v].pc \in Window

\* C17 witness: an index operation began with the document stored, a query
\* made between its drop and its insert missed the document, and the
\* operation has finished and the document is stored again.
C17_Witness ==
    \E w \in Workers :
        /\ Missed
        /\ resp.req.document_name \in had[w]
        /\ at[w].pc \in Window
        /\ pc[w] = "done" /\ wresp[w].status = 200 /\ wresp[w].inserted > 0
        /\ Filter(store, resp.req.document_name) # <<>>

\* C19: when two index operations over the same upload directory run
\* concurrently and both complete, the store holds at most one record for
\* each pair of document_name and chunk_index.
C19_UniqueUnderInterleaving ==
    (\A w \in Workers : pc[w] = "done" /\ wresp[w].status = 200) =>
        \A i, j \in 1..Len(store) :
            ( /\ store[i].metadata["document_name"] = store[j].metadata["document_name"]
              /\ store[i].metadata["chunk_index"] = store[j].metadata["chunk_index"] )
            => i = j
====
